---- MODULE Spec2Model ----
(***************************************************************************)
(* Model of fluxlog's producer pipeline (src/init.go): the byte-slice and  *)
(* buffer pools, the caller-side doMsg/doEntry, the record queue, the      *)
(* publish loop goroutine, the transaction drain loop goroutine and        *)
(* Logger.Close.                                                           *)
(***************************************************************************)
EXTENDS Integers, Sequences, FiniteSets, TLC

\* ---- bounds ----
NumCallers == 2
MaxCalls == 2
MaxLen == 1
MaxSid == 2
MaxText == 2

\* ---- program constants ----
maxDcount == 10
DoneCap == 16

\* LogLevel (iota)
DEBUG == 0
INFO == 1
WARN == 2
ERROR == 3
FATAL == 4
Levels == {DEBUG, INFO, WARN, ERROR, FATAL}

\* the message texts callers pass
Texts == 1..MaxText

Callers == 1..NumCallers

NoSeg == [c |-> 0, n |-> 0, size |-> 0, sid |-> 0, kind |-> "nil", level |-> 0, text |-> 0]
NoOp == [op |-> "", arg |-> 0, text |-> 0]
NoBuf == [sid |-> 0, len |-> 0]
NoBytes == [sid |-> 0, len |-> 0]

Errors == {"nil", "ErrNotConnected", "ErrStopped", "other"}

VARIABLES
    bytesPool,    \* bytesPool: the []byte values currently in the pool
    bufferPool,   \* bufferPool: the *bytes.Buffer values currently in the pool
    nextSid,      \* next fresh backing array (allocation counter)
    dirty,        \* history: backing arrays that had record bytes written into them
    list,         \* Logger.list, the record queue
    done,         \* Logger.done: number of transactions buffered in the channel
    doneClosed,   \* close(l.done) has happened
    inflight,     \* number of transactions accepted by the producer, not yet finished
    sinkStopped,  \* Producer.Stop() was called
    crashed,      \* the process panicked (send on a closed channel)
    cpc,          \* caller -> position inside doMsg/doEntry
    cbuf,         \* caller -> local buf (the []byte header checked out)
    cseg,         \* caller -> local seg
    ncalls,       \* history: caller -> number of doMsg/doEntry calls started
    cop,          \* history: caller -> the Logger method it is inside, with its arguments
    nwrites,      \* history: number of l.list.Write calls completed
    loopPc,       \* publish loop position
    seg,          \* publish loop local seg
    buf,          \* publish loop local buf
    err,          \* publish loop local err
    dcount,       \* publish loop local dcount
    attempts,     \* history: PublishAsync calls made for the record being published
    submitted,    \* history: records in order of their first PublishAsync call
    stopSeen,     \* history: the loop received from fexit
    bufsOut,      \* history: buffers taken with getBuffer and not yet put back
    closePc,      \* position inside Logger.Close
    drainPc       \* drain loop position

vars == <<bytesPool, bufferPool, nextSid, dirty, list, done, doneClosed,
          inflight, sinkStopped, crashed, cpc, cbuf, cseg, ncalls, cop, nwrites,
          loopPc, seg, buf, err, dcount, attempts, submitted,
          stopSeen, bufsOut, closePc, drainPc>>

poolVars == <<bytesPool, bufferPool, nextSid, dirty>>
callerVars == <<cpc, cbuf, cseg, ncalls, cop, nwrites>>
loopVars == <<loopPc, seg, buf, err, dcount, attempts, submitted, stopSeen,
              bufsOut>>
sinkVars == <<done, doneClosed, inflight, sinkStopped, crashed>>

Init ==
    /\ bytesPool = {}
    /\ bufferPool = {}
    /\ nextSid = 1
    /\ dirty = {}
    /\ list = <<>>
    /\ done = 0
    /\ doneClosed = FALSE
    /\ inflight = 0
    /\ sinkStopped = FALSE
    /\ crashed = FALSE
    /\ cpc = [c \in Callers |-> "idle"]
    /\ cbuf = [c \in Callers |-> NoBytes]
    /\ cseg = [c \in Callers |-> NoSeg]
    /\ ncalls = [c \in Callers |-> 0]
    /\ cop = [c \in Callers |-> NoOp]
    /\ nwrites = 0
    /\ loopPc = "select"
    /\ seg = NoSeg
    /\ buf = NoBuf
    /\ err = "nil"
    /\ dcount = 0
    /\ attempts = 0
    /\ submitted = <<>>
    /\ stopSeen = FALSE
    /\ bufsOut = 0
    /\ closePc = "idle"
    /\ drainPc = "range"

\* ---- pools (sync.Pool) ----

\* bytesPool.New: make([]byte, 0, 100) on a fresh backing array
bytesPoolNew(sid) == [sid |-> sid, len |-> 0]

\* sync.Pool.Get: any pooled value, or a value made by New.  New runs when
\* the pool is empty; it may also run while values are pooled (they sit in
\* another P's cache or were dropped by the collector), which the model
\* allows while fresh backing arrays remain below MaxSid.
PoolGet(pool) ==
    {[v |-> x, rest |-> pool \ {x}, made |-> FALSE] : x \in pool}
    \cup (IF pool = {} \/ nextSid <= MaxSid
          THEN {[v |-> bytesPoolNew(nextSid), rest |-> pool, made |-> TRUE]}
          ELSE {})

\* getBytes: bytes = bytes[0:] keeps the length of the pooled header
getBytes(b) == [sid |-> b.sid, len |-> b.len - 0]

\* bufferPool.New: bytes.NewBuffer(getBytes()), the buffer holds what the
\* slice holds
bufferPoolNew(b) == [sid |-> b.sid, len |-> b.len]

\* a getBuffer that forgets to truncate
getBufferAsPooled(b) == b

\* getBuffer: buf.Truncate(0)
getBuffer(b) == [sid |-> b.sid, len |-> 0]

\* the allocation made by a Get, if it made one
Alloc(g) == nextSid' = IF g.made THEN nextSid + 1 ELSE nextSid

\* ---- record encoders ----

\* capn.NewBuffer(buf) followed by LogMsgtoSegment: a segment of `size`
\* bytes written into the backing array of buf
LogMsgtoSegment(c, n, b, size, level, message) ==
    [c |-> c, n |-> n, size |-> size, sid |-> b.sid, kind |-> "msg",
     level |-> level, text |-> message]

\* capn.NewBuffer(buf) followed by a successful EntrytoSegment
EntrytoSegment(c, n, b, size) ==
    [c |-> c, n |-> n, size |-> size, sid |-> b.sid, kind |-> "entry",
     level |-> 0, text |-> 0]

\* seg.WriteTo(buf): the buffer receives the segment's bytes
WriteTo(s, b) == [sid |-> b.sid, len |-> b.len + s.size]

\* ---- callers: doMsg / doEntry ----

InWrite(c) == cpc[c] = "write"

RECURSIVE CallsUpTo(_)
CallsUpTo(k) == IF k = 0 THEN 0 ELSE ncalls[k] + CallsUpTo(k - 1)

\* the callers together make at most MaxCalls calls
MayCall == CallsUpTo(NumCallers) < MaxCalls

\* doMsg(level, message): buf := getBytes(); seg := capn.NewBuffer(buf);
\* LogMsgtoSegment(seg, l.DbName, level, message); then it enters
\* l.list.Write(seg).  op names the Logger method that made the call.
doMsg(c, op, level, message) ==
    /\ ~crashed
    /\ cpc[c] = "idle"
    /\ MayCall
    /\ \E g \in PoolGet(bytesPool), size \in 0..MaxLen :
         /\ bytesPool' = g.rest
         /\ Alloc(g)
         /\ cbuf' = [cbuf EXCEPT ![c] = getBytes(g.v)]
         /\ cseg' = [cseg EXCEPT ![c] = LogMsgtoSegment(c, ncalls[c] + 1, getBytes(g.v),
                                                        size, level, message)]
         /\ dirty' = IF size > 0 THEN dirty \cup {g.v.sid} ELSE dirty
    /\ ncalls' = [ncalls EXCEPT ![c] = @ + 1]
    /\ cop' = [cop EXCEPT ![c] = [op |-> op, arg |-> level, text |-> message]]
    /\ cpc' = [cpc EXCEPT ![c] = "write"]
    /\ UNCHANGED <<bufferPool, list, nwrites, loopVars, sinkVars, closePc, drainPc>>

\* a Warn that logs at the level of the method above it
WarnAtInfo(c, v) == doMsg(c, "Warn", INFO, v)

\* func (l *Logger) Info(v string) { l.doMsg(INFO, v) }, and so on
Info(c, v) == doMsg(c, "Info", INFO, v)
Debug(c, v) == doMsg(c, "Debug", DEBUG, v)
Warn(c, v) == doMsg(c, "Warn", WARN, v)
Error(c, v) == doMsg(c, "Error", ERROR, v)
Fatal(c, v) == doMsg(c, "Fatal", FATAL, v)

\* func (l *Logger) Log(level LogLevel, v string) { l.doMsg(level, v) }
Log(c, level, v) == doMsg(c, "Log", level, v)

\* a message call as the pipeline sees it
DoMsg(c) == Info(c, 1)

\* doEntry: buf := getBytes(); seg := capn.NewBuffer(buf);
\* err = EntrytoSegment(seg, ...); on an error it returns at once (buf is
\* not put back), otherwise it enters l.list.Write(seg)
DoEntry(c) ==
    /\ ~crashed
    /\ cpc[c] = "idle"
    /\ MayCall
    /\ \E g \in PoolGet(bytesPool), size \in 0..MaxLen, ok \in BOOLEAN :
         /\ bytesPool' = g.rest
         /\ Alloc(g)
         /\ IF ok
            THEN /\ cbuf' = [cbuf EXCEPT ![c] = getBytes(g.v)]
                 /\ cseg' = [cseg EXCEPT ![c] = EntrytoSegment(c, ncalls[c] + 1, getBytes(g.v), size)]
                 /\ dirty' = IF size > 0 THEN dirty \cup {g.v.sid} ELSE dirty
                 /\ cpc' = [cpc EXCEPT ![c] = "write"]
                 /\ cop' = [cop EXCEPT ![c] = [op |-> "doEntry", arg |-> 0, text |-> 0]]
            ELSE /\ size = 0
                 /\ UNCHANGED <<cbuf, cseg, dirty, cpc, cop>>
    /\ ncalls' = [ncalls EXCEPT ![c] = @ + 1]
    /\ UNCHANGED <<bufferPool, list, nwrites, loopVars, sinkVars, closePc, drainPc>>

\* gringo Write: the segment is appended at the tail of the queue
Write(q, s) == Append(q, s)

\* l.list.Write(seg) completes
ListWrite(c) ==
    /\ ~crashed
    /\ cpc[c] = "write"
    /\ list' = Write(list, cseg[c])
    /\ cpc' = [cpc EXCEPT ![c] = "put"]
    /\ nwrites' = nwrites + 1
    /\ UNCHANGED <<poolVars, cbuf, cseg, ncalls, cop, loopVars, sinkVars,
                   closePc, drainPc>>

\* putBytes(buf); return
PutBytes(c) ==
    /\ ~crashed
    /\ cpc[c] = "put"
    /\ bytesPool' = bytesPool \cup {cbuf[c]}
    /\ cpc' = [cpc EXCEPT ![c] = "idle"]
    /\ cbuf' = [cbuf EXCEPT ![c] = NoBytes]
    /\ cseg' = [cseg EXCEPT ![c] = NoSeg]
    /\ cop' = [cop EXCEPT ![c] = NoOp]
    /\ UNCHANGED <<bufferPool, nextSid, dirty, ncalls, nwrites, list, loopVars,
                   sinkVars, closePc, drainPc>>

\* ---- publish loop goroutine ----

\* a queue that hands out the newest record first
ReadNewest(q) ==
    IF q = <<>>
    THEN [seg |-> NoSeg, rest |-> q]
    ELSE [seg |-> q[Len(q)], rest |-> SubSeq(q, 1, Len(q) - 1)]

\* l.list.Read(): the record at the head of the queue is taken off it; nil
\* when the queue is empty
Read(q) ==
    IF q = <<>>
    THEN [seg |-> NoSeg, rest |-> q]
    ELSE [seg |-> Head(q), rest |-> Tail(q)]

\* case <-l.fexit: break -- the break leaves the select statement, and the
\* enclosing for loop goes on with its next iteration
LoopStop ==
    /\ ~crashed
    /\ loopPc = "select"
    /\ closePc = "send"
    /\ closePc' = "closeDone"
    /\ stopSeen' = TRUE
    /\ loopPc' = "select"
    /\ UNCHANGED <<poolVars, callerVars, list, sinkVars, seg, buf, err, dcount,
                   attempts, submitted, bufsOut, drainPc>>

\* buf = getBuffer(): a pooled buffer, or one made by bufferPool.New on a
\* slice taken with getBytes(); truncated either way.  The outcomes: the
\* buffer, what stays in the two pools, and whether a slice was allocated.
GetBuffer ==
    {[v |-> getBuffer(x), bufs |-> bufferPool \ {x}, slices |-> bytesPool,
      made |-> FALSE] : x \in bufferPool}
    \cup (IF bufferPool = {} \/ nextSid <= MaxSid
          THEN {[v |-> getBuffer(bufferPoolNew(getBytes(g.v))), bufs |-> bufferPool,
                 slices |-> g.rest, made |-> g.made] : g \in PoolGet(bytesPool)}
          ELSE {})

\* default: seg = l.list.Read(); if seg == nil { continue }; buf = getBuffer()
\* (the default case runs only when no sender waits on fexit)
LoopRead ==
    /\ ~crashed
    /\ loopPc = "select"
    /\ closePc # "send"
    /\ seg' = Read(list).seg
    /\ list' = Read(list).rest
    /\ IF Read(list).seg = NoSeg
       THEN /\ loopPc' = "select"
            /\ UNCHANGED <<attempts, buf, bytesPool, bufferPool, nextSid, bufsOut>>
       ELSE /\ loopPc' = "render"
            /\ attempts' = 0
            /\ bufsOut' = bufsOut + 1
            /\ \E g \in GetBuffer :
                 /\ buf' = g.v
                 /\ bufferPool' = g.bufs
                 /\ bytesPool' = g.slices
                 /\ Alloc(g)
    /\ UNCHANGED <<dirty, callerVars, sinkVars, err, dcount, submitted,
                   stopSeen, closePc, drainPc>>

\* a render step that publishes whatever was rendered
LoopRenderUnchecked ==
    /\ ~crashed
    /\ loopPc = "render"
    /\ buf' = WriteTo(seg, buf)
    /\ dirty' = IF seg.size > 0 THEN dirty \cup {buf.sid} ELSE dirty
    /\ loopPc' = "pub"
    /\ UNCHANGED <<bytesPool, bufferPool, nextSid, callerVars, list, sinkVars,
                   seg, err, dcount, attempts, submitted, stopSeen, bufsOut,
                   closePc, drainPc>>

\* seg.WriteTo(buf); if buf.Len() == 0 { continue }
LoopRender ==
    /\ ~crashed
    /\ loopPc = "render"
    /\ buf' = WriteTo(seg, buf)
    /\ dirty' = IF seg.size > 0 THEN dirty \cup {buf.sid} ELSE dirty
    /\ loopPc' = IF WriteTo(seg, buf).len = 0 THEN "select" ELSE "pub"
    /\ UNCHANGED <<bytesPool, bufferPool, nextSid, callerVars, list, sinkVars,
                   seg, err, dcount, attempts, submitted, stopSeen, bufsOut,
                   closePc, drainPc>>

\* the answers Producer.PublishAsync can give
PublishAsync == IF sinkStopped THEN {"ErrStopped"} ELSE {"nil", "ErrNotConnected", "other"}

\* a loop that retries after every failure
RetryAnyError(e, d) == e # "nil" /\ ~(d > maxDcount)

\* case nsq.ErrNotConnected: if dcount > maxDcount { break }; otherwise the
\* call is retried
Retry(e, d) == e = "ErrNotConnected" /\ ~(d > maxDcount)

\* a loop that never resets its disconnect count
dcountKept(e, d) == IF Retry(e, d) THEN d + 1 ELSE d

\* a loop that starts counting afresh once it has given a record up
dcountResetOnAbandon(e, d) ==
    IF e = "nil" THEN 0
    ELSE IF Retry(e, d) THEN d + 1
    ELSE IF e = "ErrNotConnected" THEN 0
    ELSE d

\* dcount after a PublishAsync call that answered e: dcount++ on a retry,
\* dcount = 0 on success, unchanged otherwise
dcountAfter(e, d) ==
    IF e = "nil" THEN 0
    ELSE IF Retry(e, d) THEN d + 1
    ELSE d

\* pub: err = l.w.PublishAsync(l.Topic, buf.Bytes(), l.done, nil) and the
\* switch on err that follows it; a retry sleeps 100ms and is back at pub
LoopPublish ==
    /\ ~crashed
    /\ loopPc = "pub"
    /\ attempts' = attempts + 1
    /\ submitted' = IF attempts = 0
                    THEN Append(submitted, [c |-> seg.c, n |-> seg.n, len |-> buf.len])
                    ELSE submitted
    /\ \E e \in PublishAsync :
         /\ err' = e
         /\ inflight' = IF e = "nil" THEN inflight + 1 ELSE inflight
         /\ dcount' = dcountAfter(e, dcount)
         /\ loopPc' = IF Retry(e, dcount) THEN "pub" ELSE "put"
    /\ UNCHANGED <<poolVars, callerVars, list, done, doneClosed, sinkStopped,
                   crashed, seg, buf, stopSeen, bufsOut, closePc, drainPc>>

\* putBuffer(buf), then the next iteration of the for loop
LoopPut ==
    /\ ~crashed
    /\ loopPc = "put"
    /\ bufferPool' = bufferPool \cup {buf}
    /\ loopPc' = "select"
    /\ attempts' = 0
    /\ bufsOut' = bufsOut - 1
    /\ UNCHANGED <<bytesPool, nextSid, dirty, callerVars, list, sinkVars, seg,
                   buf, err, dcount, submitted, stopSeen, closePc, drainPc>>

\* ---- producer (broker sink) and the completion channel ----

\* the producer finishes a transaction: t.doneChan <- t.  A send on a
\* closed channel panics; a send on a full channel waits.
SinkDeliver ==
    /\ ~crashed
    /\ inflight > 0
    /\ IF doneClosed
       THEN /\ crashed' = TRUE
            /\ UNCHANGED <<done, inflight>>
       ELSE /\ done < DoneCap
            /\ done' = done + 1
            /\ inflight' = inflight - 1
            /\ crashed' = crashed
    /\ UNCHANGED <<poolVars, callerVars, list, loopVars, doneClosed, sinkStopped,
                   closePc, drainPc>>

\* ---- transaction drain loop goroutine ----

\* for pd = range l.done { if pd.Error != nil { log.Printf(...) } }
DrainRecv ==
    /\ ~crashed
    /\ drainPc = "range"
    /\ done > 0
    /\ done' = done - 1
    /\ UNCHANGED <<poolVars, callerVars, list, loopVars, doneClosed, inflight,
                   sinkStopped, crashed, closePc, drainPc>>

\* the range ends when the channel is closed and empty
DrainExit ==
    /\ ~crashed
    /\ drainPc = "range"
    /\ done = 0
    /\ doneClosed
    /\ drainPc' = "exited"
    /\ UNCHANGED <<poolVars, callerVars, list, loopVars, sinkVars, closePc>>

\* ---- Logger.Close ----

\* a Close whose send does not wait for the loop (a buffered fexit)
CloseSendBuffered ==
    /\ ~crashed
    /\ closePc = "idle"
    /\ closePc' = "closeDone"
    /\ UNCHANGED <<poolVars, callerVars, list, loopVars, sinkVars, drainPc>>

\* Close is called: l.fexit <- sig{} waits for a receiver (LoopStop)
CloseSend ==
    /\ ~crashed
    /\ closePc = "idle"
    /\ closePc' = "send"
    /\ UNCHANGED <<poolVars, callerVars, list, loopVars, sinkVars, drainPc>>

\* close(l.done)
CloseDone ==
    /\ ~crashed
    /\ closePc = "closeDone"
    /\ doneClosed' = TRUE
    /\ closePc' = "stop"
    /\ UNCHANGED <<poolVars, callerVars, list, loopVars, done, inflight,
                   sinkStopped, crashed, drainPc>>

\* l.w.Stop(); return
CloseStop ==
    /\ ~crashed
    /\ closePc = "stop"
    /\ sinkStopped' = TRUE
    /\ closePc' = "returned"
    /\ UNCHANGED <<poolVars, callerVars, list, loopVars, done, doneClosed,
                   inflight, crashed, drainPc>>

Next ==
    \/ \E c \in Callers : DoMsg(c)
    \/ \E c \in Callers : DoEntry(c)
    \/ \E c \in Callers : ListWrite(c)
    \/ \E c \in Callers : PutBytes(c)
    \/ LoopStop
    \/ LoopRead
    \/ LoopRender
    \/ LoopPublish
    \/ LoopPut
    \/ SinkDeliver
    \/ DrainRecv
    \/ DrainExit
    \/ CloseSend
    \/ CloseDone
    \/ CloseStop

Spec == Init /\ [][Next]_vars

TypeOK ==
    /\ dcount \in 0..(maxDcount + 1)
    /\ loopPc \in {"select", "render", "pub", "put", "return"}
    /\ closePc \in {"idle", "send", "closeDone", "stop", "returned"}
    /\ err \in Errors

\* the goroutine has reached the return that follows its for loop
LoopReturned == loopPc = "return"

\* a PublishAsync call is made in this step
PublishStep == attempts' = attempts + 1

\* a record is taken off the queue in this step
ReadStep == loopPc = "select" /\ loopPc' = "render"

\* ---- properties ----

\* C1: the records of one caller are first submitted to PublishAsync in
\* the order in which that caller enqueued them (repeated attempts for one
\* record count once).
FifoPerCaller ==
    \A i, j \in 1..Len(submitted) :
        (i < j /\ submitted[i].c = submitted[j].c) => submitted[i].n < submitted[j].n

\* two records of one caller were both submitted, the second after retries
FifoWitness ==
    /\ Len(submitted) >= 2
    /\ submitted[1].c = submitted[2].c
    /\ attempts > 1

\* C2 (as claimed): no record gets more than maxDcount + 1 = 11
\* PublishAsync calls.
AtMostElevenCalls == attempts <= maxDcount + 1

\* C3: a successful PublishAsync call leaves dcount at 0, and dcount
\* changes only by +1 on a not-connected failure or to 0 on a success.
CounterReset ==
    [][/\ (PublishStep /\ err' = "nil") => dcount' = 0
       /\ dcount' # dcount =>
            /\ PublishStep
            /\ \/ err' = "ErrNotConnected" /\ dcount' = dcount + 1
               \/ err' = "nil" /\ dcount' = 0]_vars

\* a success that followed not-connected retries of the same record
CounterResetWitness ==
    /\ loopPc = "put"
    /\ attempts > 1
    /\ err = "nil"
    /\ dcount = 0

\* C4 (as claimed): once the loop has received from fexit it makes no
\* PublishAsync call and takes no record off the queue.
NoPublishAfterStop == [][stopSeen => ~PublishStep /\ ~ReadStep]_vars

\* C5 (as claimed): whenever done is closed, the publish loop goroutine has
\* terminated.
DoneClosedAfterLoopReturned == doneClosed => LoopReturned

\* C6: Close hands the stop signal to the loop, then closes done, then
\* stops the producer, in this order.
ShutdownOrder ==
    /\ closePc \in {"closeDone", "stop", "returned"} => stopSeen
    /\ doneClosed <=> closePc \in {"stop", "returned"}
    /\ sinkStopped <=> closePc = "returned"

\* Close has returned
ShutdownWitness == closePc = "returned" /\ stopSeen /\ doneClosed /\ sinkStopped

\* C7 (as claimed): when the producer is stopped the publish loop has
\* terminated and the drain loop has left its range.
BothStoppedBeforeSinkStop == sinkStopped => (LoopReturned /\ drainPc = "exited")

\* C8: every PublishAsync call carries a payload of length > 0, and a
\* record that renders to nothing sends the loop back to its select.
NoEmptyPayload ==
    [][/\ PublishStep => buf.len > 0
       /\ (loopPc = "render" /\ loopPc' # "render" /\ WriteTo(seg, buf).len = 0)
            => (loopPc' = "select" /\ ~PublishStep)]_vars

\* the loop has discarded a record that rendered to nothing
NoEmptyPayloadWitness == loopPc = "select" /\ seg # NoSeg /\ seg.size = 0

\* C9: a value handed out by getBytes or getBuffer has length 0.
PoolReset ==
    /\ \A c \in Callers : cpc[c] \in {"write", "put"} => cbuf[c].len = 0
    /\ loopPc = "render" => buf.len = 0

\* a buffer checked out again after it went back to the pool with content
PoolResetWitness == loopPc = "render" /\ buf.sid \in dirty /\ buf.len = 0

\* C10 (as claimed): no two callers are inside list.Write at once.
SingleProducer == \A c1, c2 \in Callers : (InWrite(c1) /\ InWrite(c2)) => c1 = c2

\* C12 (as claimed): once PublishAsync has answered ErrStopped the loop
\* makes no further PublishAsync call and takes no record off the queue.
StoppedIsTerminal == [][err = "ErrStopped" => ~PublishStep /\ ~ReadStep]_vars

\* the backing arrays of the slices that are in bytesPool
Pooled == {b.sid : b \in bytesPool}

\* C13 (as claimed): no segment that is queued, or held by the loop for
\* rendering, lives in a backing array that has been put back into
\* bytesPool.
NoPooledStorageQueued ==
    /\ \A i \in 1..Len(list) : list[i].sid \notin Pooled
    /\ loopPc = "render" => seg.sid \notin Pooled

AbandonKeepsCount ==
    [][/\ (PublishStep /\ err' = "ErrNotConnected" /\ dcount > maxDcount)
            => (dcount' = dcount /\ loopPc' = "put")
       /\ (dcount > maxDcount /\ dcount' # dcount)
            => (PublishStep /\ err' = "nil" /\ dcount' = 0)]_vars

\* the record after an abandoned one was dropped on its first call
AbandonWitness ==
    /\ loopPc = "put"
    /\ err = "ErrNotConnected"
    /\ attempts = 1
    /\ dcount > maxDcount
    /\ Len(submitted) >= 2

\* doEntry was called and has returned within this step: its encoding failed
FailedEntryStep(c) == ncalls'[c] = ncalls[c] + 1 /\ cpc'[c] = "idle"

\* C20 (as claimed): a doEntry whose encoding fails writes nothing to the
\* queue and puts the slice it checked out back into bytesPool.
FailedEntryChangesNothing ==
    [][\A c \in Callers : FailedEntryStep(c) =>
          /\ list' = list
          /\ Cardinality(bytesPool') = Cardinality(bytesPool) + (nextSid' - nextSid)]_vars

\* C14 (as claimed): the loop never has more than one buffer checked out,
\* and has put its buffer back whenever it is about to read the queue.
BufferReturned ==
    /\ bufsOut <= 1
    /\ loopPc = "select" => bufsOut = 0

\* C17 (as claimed): the producer never sends a completion on l.done after
\* Close has closed it.
NoSendOnClosedDone == ~crashed

\* ---- scheduling ----

\* Every goroutine that can run is eventually scheduled: the publish loop,
\* the drain loop, the producer's router and the goroutine inside Close.
\* Callers are free to stop calling.
Fairness ==
    /\ WF_vars(LoopStop)
    /\ WF_vars(LoopRead)
    /\ WF_vars(LoopRender)
    /\ WF_vars(LoopPublish)
    /\ WF_vars(LoopPut)
    /\ WF_vars(SinkDeliver)
    /\ WF_vars(DrainRecv)
    /\ WF_vars(DrainExit)
    /\ WF_vars(CloseDone)
    /\ WF_vars(CloseStop)

FairSpec == Spec /\ Fairness

\* C16 (as claimed): once Close has closed l.done, the drain loop receives
\* what is buffered in it and leaves its range.
DrainCompletes == doneClosed ~> (drainPc = "exited" /\ done = 0)

\* C18 (as claimed): a call of Close eventually returns.
CloseReturns == (closePc = "send") ~> (closePc = "returned")

\* ---- the message operations ----

\* Callers use every message operation of the Logger, with any level and
\* text, while the publish loop takes records off the queue and renders
\* them; publishing and Close are exercised in Spec.
NextMsg ==
    \/ \E c \in Callers, v \in Texts : Debug(c, v)
    \/ \E c \in Callers, v \in Texts : Info(c, v)
    \/ \E c \in Callers, v \in Texts : Warn(c, v)
    \/ \E c \in Callers, v \in Texts : Error(c, v)
    \/ \E c \in Callers, v \in Texts : Fatal(c, v)
    \/ \E c \in Callers, v \in Texts, level \in Levels : Log(c, level, v)
    \/ \E c \in Callers : ListWrite(c)
    \/ \E c \in Callers : PutBytes(c)
    \/ LoopRead
    \/ LoopRender

SpecMsg == Init /\ [][NextMsg]_vars

\* the level a message operation logs at
LevelOf(o) ==
    CASE o.op = "Debug" -> DEBUG
      [] o.op = "Info" -> INFO
      [] o.op = "Warn" -> WARN
      [] o.op = "Error" -> ERROR
      [] o.op = "Fatal" -> FATAL
      [] OTHER -> o.arg

\* the callers that are inside l.list.Write
Writing == {c \in Callers : InWrite(c)}

\* C11: a message operation writes one segment to the queue, carrying the
\* level of the operation and the text given; the segments written are as
\* many as the calls made.
MessageEnqueued ==
    /\ [](nwrites + Cardinality(Writing) = CallsUpTo(NumCallers))
    /\ [][\A c \in Callers : (cpc[c] = "write" /\ cpc'[c] = "put") =>
            /\ nwrites' = nwrites + 1
            /\ Len(list') = Len(list) + 1
            /\ list'[Len(list')].kind = "msg"
            /\ list'[Len(list')].level = LevelOf(cop[c])
            /\ list'[Len(list')].text = cop[c].text
            /\ list'[Len(list')].c = c
            /\ list'[Len(list')].n = ncalls[c]]_vars

\* a Warn and a Log(FATAL, ...) with different texts are both in the queue
MessageEnqueuedWitness ==
    /\ nwrites = 2
    /\ Len(list) = 2
    /\ list[1].level = WARN
    /\ list[2].level = FATAL
    /\ list[1].text # list[2].text
    /\ \A c \in Callers : cpc[c] = "idle"

====
